---- MODULE Spec2Model ----
(***************************************************************************)
(* Wavetable synthesizer: the resampler (Resample.cpp), the ADSR envelope  *)
(* (ADSR.cpp) and the ten-voice pool of WavetableSynth.cpp.                *)
(*                                                                         *)
(* Numbers.  The program computes in float/double; the model computes in   *)
(* fixed point and keeps the unit of every quantity explicit:              *)
(*   frame indices and speeds   in 1/IdxScale frames                       *)
(*   pitch ratios 2^(c/1200)    in 1/PitchScale                            *)
(*   envelope amplitudes        in 1/AmpScale                              *)
(*   velocities and 7-bit levels as the integer sent on the wire (n/127)   *)
(*   modulation phase           in quarter turns (pi/2)                    *)
(* Rounding of the machine floats is not modelled.                         *)
(***************************************************************************)
EXTENDS Integers, Sequences, FiniteSets, TLC

VARIABLES
    playing,    \* WavetableSynth::playing[MAX_NOTES], slot -> Note
    newest,     \* WavetableSynth::newest
    patch,      \* WavetableSynth::patch
    bend,       \* WavetableSynth::bend    (cents)
    vibrato,    \* WavetableSynth::vibrato (cents)
    vol,        \* WavetableSynth::vol     <<numerator, denominator>>
    mod,        \* WavetableSynth::mod     (cents)
    mphase,     \* WavetableSynth::mphase  (quarter turns)
    out,        \* what the call made last returned (Void or output()'s sample)
    rs,         \* a Resample object driven on its own
    env,        \* an ADSR object driven on its own
    midi,       \* MidiIn::eventLoop: where the event thread is, and its locals
    oob,        \* what a read past the end of a sample buffer yields
    op,         \* the call made last: name and arguments
    held,       \* the voices that held the called note's key before that call
    nNoteOn,    \* noteOn calls made so far
    nCtl,       \* other control events made so far
    nTicks,     \* next() calls made while no voice was releasing
    lastPatch,  \* the value of the latest patchChange, -1 before the first
    quiet,      \* a patchChange was made and no noteOn since
    run,        \* the notes of a run of noteOn calls with distinct notes
    thread      \* MidiIn: where its owner is, thread_running, process_events

vars == <<playing, newest, patch, bend, vibrato, vol, mod, mphase, out, rs, env,
          midi, oob, op, held, nNoteOn, nCtl, nTicks, lastPatch, quiet, run,
          thread>>

synthVars == <<playing, newest, patch, bend, vibrato, vol, mod, mphase>>

----------------------------------------------------------------------------
(* Units *)

IdxScale == 240
PitchScale == 1920
AmpScale == 1000

(* Bounds of the exploration *)

MaxNoteOn == 3
MaxCtl == 2
MaxTicks == 1
MaxRun == 11
MaxAgain == 1
MaxStrike == 2

----------------------------------------------------------------------------
(* AudioData: an immutable interleaved buffer.  The .wav files the program *)
(* loads are not part of the repository; the model plays short buffers.    *)

AudioData(nframes, R, nchannels, samples) ==
    [frames |-> nframes, rate |-> R, channels |-> nchannels, data |-> samples]

\* audio_data->data()[k]: element k of the interleaved buffer (0-based); a read
\* past the end of the buffer yields whatever lies behind it.
DataAt(ad, k) ==
    IF k >= 0 /\ k < Len(ad.data) THEN ad.data[k + 1] ELSE oob

----------------------------------------------------------------------------
(* Resample *)

Resample(ad_ptr, channel, factor, loop_bgn, loop_end) ==
    [audio_data |-> ad_ptr, ichannel |-> channel, findex |-> (8 * IdxScale) \div 10,
     speedup |-> factor, multiplier |-> factor,
     iloop_bgn |-> loop_bgn, iloop_end |-> loop_end]

\* (int)x for a non-negative fixed-point x: the whole frames in it
Trunc(x) == x \div IdxScale

\* output() that reads at findex itself, loop or no loop
ResamplePositionUnfolded(r) ==
    [index |-> r.findex, i |-> Trunc(r.findex), e |-> Trunc(r.findex) + 1]

\* The position output() reads at: findex, folded into the loop once it has
\* passed iloop_end.  [index, i, e] as the code leaves them before line 61.
ResamplePosition(r) ==
    LET i0 == Trunc(r.findex)
    IN  IF r.iloop_bgn < r.iloop_end /\ r.iloop_end * IdxScale < r.findex
        THEN LET interval == r.iloop_end - r.iloop_bgn
                 iters == (r.findex - r.iloop_bgn * IdxScale) \div (interval * IdxScale)
                 index == r.findex - iters * interval * IdxScale
                 i == Trunc(index)
             IN  [index |-> index, i |-> i,
                  e |-> IF r.audio_data.frames = i THEN r.iloop_bgn ELSE i + 1]
        ELSE [index |-> r.findex, i |-> i0, e |-> i0 + 1]

\* Resample::output(), in 1/IdxScale of a sample unit
ResampleOutput(r) ==
    LET p == ResamplePosition(r)
        ad == r.audio_data
        channels == ad.channels
    IN  IF p.e < ad.frames
        THEN LET t1 == p.index - p.i * IdxScale
                 t0 == IdxScale - t1
                 init == DataAt(ad, p.i * channels + r.ichannel)
                 end == DataAt(ad, p.e * channels + r.ichannel)
             IN  t0 * init + end * t1
        ELSE IF ad.frames = p.i /\ (r.findex - p.i * IdxScale) * 1000 < IdxScale
        THEN DataAt(ad, p.i * channels + r.ichannel) * IdxScale
        ELSE 0

\* the frames output() reads: i and e where it interpolates (lines 65-66), i in
\* the branch of line 71, none where it returns 0
FramesRead(r) ==
    LET p == ResamplePosition(r)
        ad == r.audio_data
    IN  IF p.e < ad.frames THEN {p.i, p.e}
        ELSE IF ad.frames = p.i /\ (r.findex - p.i * IdxScale) * 1000 < IdxScale
        THEN {p.i}
        ELSE {}

ResampleNext(r) == [r EXCEPT !.findex = r.findex + r.speedup]

RECURSIVE Pow2(_)
Pow2(n) == IF n = 0 THEN 1 ELSE 2 * Pow2(n - 1)

\* pow(2.0, cents / 1200) in 1/PitchScale: exact at whole octaves, the chord
\* between them within an octave.
Pow2Cents(cents) ==
    LET q == cents \div 1200
        r == cents % 1200
        m == (1200 + r) * PitchScale
    IN  IF q >= 0 THEN (m * Pow2(q)) \div 1200 ELSE (m \div Pow2(-q)) \div 1200

\* pitchOffset() that scales the speed it finds
ResamplePitchOffsetCumulative(r, cents) ==
    [r EXCEPT !.speedup = (r.speedup * Pow2Cents(cents)) \div PitchScale]

ResamplePitchOffset(r, cents) ==
    [r EXCEPT !.speedup = (r.multiplier * Pow2Cents(cents)) \div PitchScale]

ResampleReset(r) == [r EXCEPT !.findex = 0]

----------------------------------------------------------------------------
(* ADSR *)

\* Amplitudes come in three formats.  "milli" counts in 1/AmpScale and is what
\* the voices of the synthesizer use: at its rate the attack is over in one
\* next() and no sum is rounded.  "float" and "double" count in 1/FloatOne =
\* 2^-30, the spacing of the floats from 2^-7 up, so that a sum of such floats is
\* found exactly and then rounded as the format rounds it; ADSR.h, which says
\* whether 'envelope' is a float or a double, is not part of the sources.
FloatOne == 1073741824

One(fmt) == IF fmt = "milli" THEN AmpScale ELSE FloatOne

\* the spacing of the floats at x (in 1/FloatOne): the least power of two p with
\* x < 2^24 * p
RECURSIVE Ulp(_, _)
Ulp(x, p) == IF x \div p < 16777216 THEN p ELSE Ulp(x, 2 * p)

\* x rounded to the nearest float, ties to even
F32Round(x) ==
    LET p == Ulp(x, 1)
        q == x \div p
        r == x % p
    IN  IF 2 * r > p \/ (2 * r = p /\ q % 2 = 1) THEN (q + 1) * p ELSE q * p

Rounded(fmt, x) == IF fmt = "float" THEN F32Round(x) ELSE x

\* x * f / One: the product of two amplitudes of at most 1.0, cut off at the unit
\* (by 15-bit halves in the wide unit, where the plain product has 60 bits)
Times(fmt, x, f) ==
    IF fmt = "milli" THEN (x * f) \div AmpScale
    ELSE LET xh == x \div 32768
             xl == x % 32768
             fh == f \div 32768
             fl == f % 32768
         IN  xh * fh + (xh * fl + xl * fh + (xl * fl) \div 32768) \div 32768

\* linearDegradeRate(t, R, d, s), t in 1/100 s: 1/(t*R), a float
linearDegradeRateIn(fmt, t, R) ==
    IF t = 0 \/ R = 0 THEN One(fmt)
    ELSE IF fmt = "milli" THEN (100 * AmpScale) \div (t * R)
    ELSE LET q == FloatOne \div (t * R)
             r == FloatOne % (t * R)
         IN  F32Round(q * 100 + (2 * r * 100 + t * R) \div (2 * t * R))

linearDegradeRate(t, R) == linearDegradeRateIn("milli", t, R)

\* expDegradeRate(t, R), t in 1/100 s, result in 1/AmpScale:
\* exp(-k/R) = 10^(-4.8 * 100 / (t * R)), read from a table of powers of ten.
TenToMinus(milli) ==
    CASE milli = 2    -> 995    \* 10^-0.002
      [] milli = 300  -> 501    \* 10^-0.3
      [] milli = 1200 -> 63     \* 10^-1.2

expDegradeRate(t, R) ==
    IF t = 0 THEN 0
    ELSE IF R = 0 THEN AmpScale
    ELSE TenToMinus(480000 \div (t * R))

\* ADSR::ADSR(a, d, s, r, R) with amplitudes in format fmt; a, d, r in 1/100 s,
\* s in 1/1000
ADSRin(fmt, a, d, s, r, R) ==
    [fmt |-> fmt,
     current_mode |-> "ATTACK", envelope |-> IF a = 0 THEN One(fmt) ELSE 0,
     sustain_level |-> (One(fmt) \div AmpScale) * s,
     attack_increment |-> linearDegradeRateIn(fmt, a, R),
     decay_factor |-> (One(fmt) \div AmpScale) * expDegradeRate(d, R),
     release_factor |-> (One(fmt) \div AmpScale) * expDegradeRate(r, R)]

ADSR(a, d, s, r, R) == ADSRin("milli", a, d, s, r, R)

ADSRsustainOff(e) == [e EXCEPT !.current_mode = "RELEASE"]

ADSRreset(e) == [e EXCEPT !.envelope = 0, !.current_mode = "ATTACK"]

ADSRoutput(e) == e.envelope

\* next() whose decay has no floor at the sustain level
ADSRnextNoFloor(e) ==
    CASE e.current_mode = "ATTACK" ->
           LET x == Rounded(e.fmt, e.envelope + e.attack_increment)
           IN  IF One(e.fmt) <= x
               THEN [e EXCEPT !.envelope = One(e.fmt), !.current_mode = "DECAY"]
               ELSE [e EXCEPT !.envelope = x]
      [] e.current_mode = "DECAY" ->
           [e EXCEPT !.envelope = Times(e.fmt, e.envelope, e.decay_factor)]
      [] e.current_mode = "SUSTAIN" -> e
      [] OTHER ->
           [e EXCEPT !.envelope = Times(e.fmt, e.envelope, e.release_factor)]

\* next() whose release holds the amplitude
ADSRnextHoldsRelease(e) ==
    CASE e.current_mode = "ATTACK" ->
           LET x == Rounded(e.fmt, e.envelope + e.attack_increment)
           IN  IF One(e.fmt) <= x
               THEN [e EXCEPT !.envelope = One(e.fmt), !.current_mode = "DECAY"]
               ELSE [e EXCEPT !.envelope = x]
      [] e.current_mode = "DECAY" ->
           LET x == Times(e.fmt, e.envelope, e.decay_factor)
           IN  IF x <= e.sustain_level
               THEN [e EXCEPT !.envelope = e.sustain_level]
               ELSE [e EXCEPT !.envelope = x]
      [] OTHER -> e

\* next() whose attack has no ceiling at 1.0
ADSRnextNoCeiling(e) ==
    CASE e.current_mode = "ATTACK" ->
           LET x == Rounded(e.fmt, e.envelope + e.attack_increment)
           IN  IF One(e.fmt) <= x
               THEN [e EXCEPT !.envelope = x, !.current_mode = "DECAY"]
               ELSE [e EXCEPT !.envelope = x]
      [] e.current_mode = "DECAY" ->
           LET x == Times(e.fmt, e.envelope, e.decay_factor)
           IN  IF x <= e.sustain_level
               THEN [e EXCEPT !.envelope = e.sustain_level]
               ELSE [e EXCEPT !.envelope = x]
      [] e.current_mode = "SUSTAIN" -> e
      [] OTHER ->
           [e EXCEPT !.envelope = Times(e.fmt, e.envelope, e.release_factor)]

\* next() whose release has the floor of the decay
ADSRnextFloorsRelease(e) ==
    CASE e.current_mode = "ATTACK" ->
           LET x == Rounded(e.fmt, e.envelope + e.attack_increment)
           IN  IF One(e.fmt) <= x
               THEN [e EXCEPT !.envelope = One(e.fmt), !.current_mode = "DECAY"]
               ELSE [e EXCEPT !.envelope = x]
      [] e.current_mode = "DECAY" ->
           LET x == Times(e.fmt, e.envelope, e.decay_factor)
           IN  IF x <= e.sustain_level
               THEN [e EXCEPT !.envelope = e.sustain_level]
               ELSE [e EXCEPT !.envelope = x]
      [] e.current_mode = "SUSTAIN" -> e
      [] OTHER ->
           LET x == Times(e.fmt, e.envelope, e.release_factor)
           IN  IF x <= e.sustain_level
               THEN [e EXCEPT !.envelope = e.sustain_level]
               ELSE [e EXCEPT !.envelope = x]

\* next() whose decay moves on to Sustain at the sustain level
ADSRnextEntersSustain(e) ==
    CASE e.current_mode = "ATTACK" ->
           LET x == Rounded(e.fmt, e.envelope + e.attack_increment)
           IN  IF One(e.fmt) <= x
               THEN [e EXCEPT !.envelope = One(e.fmt), !.current_mode = "DECAY"]
               ELSE [e EXCEPT !.envelope = x]
      [] e.current_mode = "DECAY" ->
           LET x == Times(e.fmt, e.envelope, e.decay_factor)
           IN  IF x <= e.sustain_level
               THEN [e EXCEPT !.envelope = e.sustain_level,
                              !.current_mode = "SUSTAIN"]
               ELSE [e EXCEPT !.envelope = x]
      [] e.current_mode = "SUSTAIN" -> e
      [] OTHER ->
           [e EXCEPT !.envelope = Times(e.fmt, e.envelope, e.release_factor)]

ADSRnext(e) ==
    CASE e.current_mode = "ATTACK" ->
           LET x == Rounded(e.fmt, e.envelope + e.attack_increment)
           IN  IF One(e.fmt) <= x
               THEN [e EXCEPT !.envelope = One(e.fmt), !.current_mode = "DECAY"]
               ELSE [e EXCEPT !.envelope = x]
      [] e.current_mode = "DECAY" ->
           LET x == Times(e.fmt, e.envelope, e.decay_factor)
           IN  IF x <= e.sustain_level
               THEN [e EXCEPT !.envelope = e.sustain_level]
               ELSE [e EXCEPT !.envelope = x]
      [] e.current_mode = "SUSTAIN" -> e
      [] OTHER ->
           [e EXCEPT !.envelope = Times(e.fmt, e.envelope, e.release_factor)]

----------------------------------------------------------------------------
(* WavetableSynth: constants and sample table *)

MAX_NOTES == 10
CENTS_SCALE == 100
A440_CENTS == 6900
CENTS_RANGE == 2 * CENTS_SCALE
EPSILON == AmpScale \div 100     \* 0.01f
MIX_DOWN == 3                    \* 0.3f, in tenths
TWO_PI == 4                      \* quarter turns

\* enum Voice
Grand == 0
Oboe == 1
Cello == 2
Max == 3
Default == Grand

\* The sampling rate R the synthesizer is constructed with
rate == 4

\* REV_TO_HZ / R: five turns a second, in quarter turns a sample
dphase == (5 * TWO_PI) \div rate

\* sin(mphase) at a whole number of quarter turns
Sin(m) == CASE m % 4 = 0 -> 0 [] m % 4 = 1 -> 1 [] m % 4 = 2 -> 0 [] m % 4 = 3 -> -1

Slots == 0 .. MAX_NOTES - 1

\* The recording every WaveData plays in the model: six mono frames.
Tone == AudioData(6, rate, 1, <<0, 2, -1, 1, -2, 1>>)

\* WaveData(file, gain, start, end); gain in 1/8, loop points scaled to Tone
WaveData(ad, gain8, start, end) ==
    [source |-> ad, speed |-> (gain8 * IdxScale) \div 8,
     first |-> start, last |-> end, channel |-> 0]

grand0 == WaveData(Tone, 128, 2, 4)
grand1 == WaveData(Tone, 64, 2, 4)
grand2 == WaveData(Tone, 32, 2, 4)
grand3 == WaveData(Tone, 16, 2, 4)
grand4 == WaveData(Tone, 8, 2, 4)
grand5 == WaveData(Tone, 4, 2, 4)
grand6 == WaveData(Tone, 2, 2, 4)
grand7 == WaveData(Tone, 1, 1, 3)
cello == WaveData(Tone, 36, 1, 4)
oboe == WaveData(Tone, 8, 1, 5)

----------------------------------------------------------------------------
(* WavetableSynth::Note *)

\* Note::SetSound(data, sampling_rate)
SetSound(n, data, sampling_rate) ==
    LET factor == IF sampling_rate = 0 THEN data.speed
                  ELSE (data.speed * sampling_rate) \div data.source.rate
        r == Resample(data.source, data.channel, factor, data.first, data.last)
    IN  [n EXCEPT !.phase = ResamplePitchOffset(r, n.key - A440_CENTS)]

\* Note::Play(rate)
Play(n, R) ==
    CASE n.inst = Grand ->
           IF n.key < 1600 THEN SetSound(n, grand0, R)
           ELSE IF n.key < 3200 THEN SetSound(n, grand1, R)
           ELSE IF n.key < 4800 THEN SetSound(n, grand2, R)
           ELSE IF n.key < 6400 THEN SetSound(n, grand3, R)
           ELSE IF n.key < 8000 THEN SetSound(n, grand4, R)
           ELSE IF n.key < 9600 THEN SetSound(n, grand5, R)
           ELSE IF n.key < 11200 THEN SetSound(n, grand6, R)
           ELSE SetSound(n, grand7, R)
      [] n.inst = Cello -> SetSound(n, cello, R)
      [] n.inst = Oboe -> SetSound(n, oboe, R)
      [] OTHER -> n

\* Note::Note(midid, velocity, instr, rate); env(0.01f, 600.0f, 0.8f, 4.0f, rate)
Note(midid, velocity, instr, R) ==
    Play([key |-> midid, vel |-> velocity, inst |-> instr,
          phase |-> Resample(Tone, 0, 0, 0, 0),
          env |-> ADSR(1, 60000, (8 * AmpScale) \div 10, 400, R)], R)

\* Note::next() that keeps a faded voice as it is
NoteNextKeepsFaded(n) ==
    IF n.key = -1 THEN n
    ELSE IF n.env.current_mode = "RELEASE" /\ ADSRoutput(n.env) < EPSILON
    THEN n
    ELSE [n EXCEPT !.phase = ResampleNext(n.phase), !.env = ADSRnext(n.env)]

\* Note::next() that advances the voice on the tick that reclaims it
NoteNextAlsoAdvances(n) ==
    IF n.key = -1 THEN n
    ELSE IF n.env.current_mode = "RELEASE" /\ ADSRoutput(n.env) < EPSILON
    THEN [n EXCEPT !.key = -1, !.vel = 0,
                   !.phase = ResampleNext(ResamplePitchOffset(n.phase, -25600)),
                   !.env = ADSRnext(n.env)]
    ELSE [n EXCEPT !.phase = ResampleNext(n.phase), !.env = ADSRnext(n.env)]

\* Note::next()
NoteNext(n) ==
    IF n.key = -1 THEN n
    ELSE IF n.env.current_mode = "RELEASE" /\ ADSRoutput(n.env) < EPSILON
    THEN [n EXCEPT !.key = -1, !.vel = 0,
                   !.phase = ResamplePitchOffset(n.phase, -25600)]
    ELSE [n EXCEPT !.phase = ResampleNext(n.phase), !.env = ADSRnext(n.env)]

\* Note::output(), in 1/(10 * IdxScale * AmpScale)
NoteOutput(n) == ResampleOutput(n.phase) * ADSRoutput(n.env) * MIX_DOWN

----------------------------------------------------------------------------
(* WavetableSynth *)

\* WavetableSynth::output(): the loop of lines 94-97, then the scaling by vol.
\* The value is num / (vol's denominator), in Note::output()'s unit.
ContributionAny(n) == NoteOutput(n)

\* line 96: what one voice adds to the mix
Contribution(n) == IF n.key < 0 THEN 0 ELSE NoteOutput(n)

RECURSIVE OutputLoop(_, _, _)
OutputLoop(p, i, acc) ==
    IF i < MAX_NOTES
    THEN OutputLoop(p, i + 1, acc + Contribution(p[i]))
    ELSE acc

output(p, v) == [num |-> OutputLoop(p, 0, 0) * v[1], den |-> v[2]]

\* WavetableSynth::next(), lines 105-114: the modulation step
ModStep(S) ==
    IF 0 # S.vibrato
    THEN LET t == S.mphase + dphase
             m == IF t <= TWO_PI THEN t ELSE t - TWO_PI
             md == S.vibrato * Sin(m)
         IN  [S EXCEPT !.mphase = m, !.mod = md,
                       !.playing = [i \in Slots |->
                           [S.playing[i] EXCEPT !.phase = ResamplePitchOffset(@,
                               md + S.bend + S.playing[i].key - A440_CENTS)]]]
    ELSE S

\* WavetableSynth::next()
next(S) ==
    LET T == ModStep(S)
    IN  [T EXCEPT !.playing = [i \in Slots |-> NoteNext(T.playing[i])]]

\* WavetableSynth::onModulationWheelChange(channel, value)
onModulationWheelChange(S, value) ==
    [S EXCEPT !.vibrato = (value * CENTS_RANGE) \div 127]

onNoteOffAll(S, note0) ==
    [S EXCEPT !.playing = [i \in Slots |->
        IF S.playing[i].key >= 0
        THEN [S.playing[i] EXCEPT !.env = ADSRsustainOff(@)]
        ELSE S.playing[i]]]

\* WavetableSynth::onNoteOff(channel, note)
onNoteOff(S, note0) ==
    LET note == note0 * CENTS_SCALE
    IN  [S EXCEPT !.playing = [i \in Slots |->
            IF S.playing[i].key = note
            THEN [S.playing[i] EXCEPT !.env = ADSRsustainOff(@)]
            ELSE S.playing[i]]]

RetriggerKeepPhase(n, velocity) ==
    [n EXCEPT !.vel = velocity, !.env = ADSRreset(@)]

\* onNoteOn, lines 149-151 and 161-163: the voice holding the key starts over
Retrigger(n, velocity) ==
    [n EXCEPT !.vel = velocity, !.env = ADSRreset(@), !.phase = ResampleReset(@)]

\* onNoteOn, lines 155 and 166: the free slot remembered while scanning
FreeSlot(p, i, index) ==
    IF 0 <= index /\ p[i].key < 0 THEN i ELSE index

\* onNoteOn, the loops of lines 145-156 and 157-167 from slot i up to slot end:
\* hit is the slot holding the key (-1: none), i the loop counter on leaving.
RECURSIVE ScanLoop(_, _, _, _, _)
ScanLoop(p, note, i, end, index) ==
    IF i < end
    THEN IF p[i].key = note
         THEN [hit |-> i, index |-> index, i |-> i]
         ELSE ScanLoop(p, note, i + 1, end, FreeSlot(p, i, index))
    ELSE [hit |-> -1, index |-> index, i |-> i]

StealSlotNewest(nw) == nw

\* onNoteOn, lines 169-172: the slot taken when the scan remembered none
StealSlot(nw) == IF nw + 1 = MAX_NOTES THEN 0 ELSE nw + 1

StartNoteKeepEnv(S, index, i, note, velocity) ==
    LET p1 == [S.playing EXCEPT ![index].key = note, ![index].vel = velocity]
        p2 == [p1 EXCEPT ![i].inst = S.patch]
        p3 == [p2 EXCEPT ![index] = Play(@, rate)]
    IN  [S EXCEPT !.playing = p3, !.newest = index]

\* onNoteOn, lines 173-178: the chosen slot starts the note; i is the
\* loop counter as the second loop left it
StartNote(S, index, i, note, velocity) ==
    LET p1 == [S.playing EXCEPT ![index].key = note, ![index].vel = velocity]
        p2 == [p1 EXCEPT ![i].inst = S.patch]
        p3 == [p2 EXCEPT ![index] = Play(@, rate)]
        p4 == [p3 EXCEPT ![index].env = ADSRreset(@)]
    IN  [S EXCEPT !.playing = p4, !.newest = index]

\* onNoteOn that looks for the key from newest up only, without the second loop's
\* test of line 159
onNoteOnOnePass(S, note0, velocity) ==
    LET note == note0 * CENTS_SCALE
        a == ScanLoop(S.playing, note, S.newest, MAX_NOTES, -1)
    IN  IF a.hit >= 0
        THEN [S EXCEPT !.playing[a.hit] = Retrigger(@, velocity)]
        ELSE StartNote(S, IF a.index < 0 THEN StealSlot(S.newest) ELSE a.index,
                       S.newest, note, velocity)

\* WavetableSynth::onNoteOn(channel, note, velocity)
onNoteOn(S, note0, velocity) ==
    LET note == note0 * CENTS_SCALE
        a == ScanLoop(S.playing, note, S.newest, MAX_NOTES, -1)
        b == IF a.hit >= 0 THEN a ELSE ScanLoop(S.playing, note, 0, S.newest, a.index)
    IN  IF b.hit >= 0
        THEN [S EXCEPT !.playing[b.hit] = Retrigger(@, velocity)]
        ELSE StartNote(S, IF b.index < 0 THEN StealSlot(S.newest) ELSE b.index,
                       b.i, note, velocity)

onPatchChangeKeepVoices(S, value) == [S EXCEPT !.patch = value % Max]

onPatchChangeDefaultInst(S, value) ==
    [S EXCEPT !.patch = value % Max,
              !.playing = [i \in Slots |-> Note(-1, 0, Default, rate)]]

\* WavetableSynth::onPatchChange(channel, value)
onPatchChange(S, value) ==
    LET pt == value % Max
    IN  [S EXCEPT !.patch = pt, !.playing = [i \in Slots |-> Note(-1, 0, pt, rate)]]

\* onPitchWheelChange that keeps the vibrato term of the latest tick
onPitchWheelChangeWithMod(S, value) ==
    LET b == value * CENTS_RANGE
    IN  [S EXCEPT !.bend = b,
                  !.playing = [i \in Slots |->
                      [S.playing[i] EXCEPT !.phase = ResamplePitchOffset(@,
                          S.mod + b + S.playing[i].key - A440_CENTS)]]]

\* WavetableSynth::onPitchWheelChange(channel, value): value is -1, 0 or 1
onPitchWheelChange(S, value) ==
    LET b == value * CENTS_RANGE
    IN  [S EXCEPT !.bend = b,
                  !.playing = [i \in Slots |->
                      [S.playing[i] EXCEPT !.phase = ResamplePitchOffset(@,
                          b + S.playing[i].key - A440_CENTS)]]]

\* WavetableSynth::onVolumeChange(channel, level)
onVolumeChange(S, level) == [S EXCEPT !.vol = <<level, 127>>]

\* WavetableSynth::WavetableSynth(devno, R)
Construct ==
    [playing |-> [i \in Slots |-> Note(-1, 0, Default, rate)],
     newest |-> 0, patch |-> Default, bend |-> 0, vibrato |-> 0, vol |-> <<1, 2>>,
     mod |-> 0, mphase |-> 0]

----------------------------------------------------------------------------
(* The state machine *)

Notes == {60, 69}
Velocities == {64, 100}
PatchValues == {5}
WheelValues == {1}
ModValues == {0, 127}
Levels == {127}

\* The synthesizer's fields as one record
Synth ==
    [playing |-> playing, newest |-> newest, patch |-> patch, bend |-> bend,
     vibrato |-> vibrato, vol |-> vol, mod |-> mod, mphase |-> mphase]

\* The event thread between two messages (line 941); index and i are the
\* locals of onNoteOn and onPatchChange
Polling == [pc |-> "poll", cmd |-> 0, b1 |-> 0, b2 |-> 0, index |-> -1, i |-> 0]

Call(name, a, b) == [name |-> name, a |-> a, b |-> b]

\* What a call that returns nothing leaves in out
Void == [num |-> 0, den |-> 0]

\* Slot and envelope phase of every voice holding the key of a note
Holding(p, note) ==
    {[slot |-> i, mode |-> p[i].env.current_mode] :
        i \in {j \in Slots : p[j].key = note * CENTS_SCALE}}

\* A call that takes the synthesizer from Synth to T
Becomes(T, call) ==
    /\ playing' = T.playing
    /\ newest' = T.newest
    /\ patch' = T.patch
    /\ bend' = T.bend
    /\ vibrato' = T.vibrato
    /\ vol' = T.vol
    /\ mod' = T.mod
    /\ mphase' = T.mphase
    /\ op' = call
    /\ out' = Void
    /\ held' = IF call.name \in {"noteOn", "noteOff"} THEN Holding(playing, call.a) ELSE {}

Releasing(n) == n.key >= 0 /\ n.env.current_mode = "RELEASE"

\* A MidiIn constructed and started, its event thread polling: the owner is
\* between start() and the destructor, both flags are set and the loop's last
\* test of thread_running found it set.
Started ==
    [main |-> "constructed", thread_running |-> TRUE, process_events |-> TRUE,
     cached |-> {TRUE}]

Init ==
    /\ playing = Construct.playing
    /\ newest = Construct.newest
    /\ patch = Construct.patch
    /\ bend = Construct.bend
    /\ vibrato = Construct.vibrato
    /\ vol = Construct.vol
    /\ mod = Construct.mod
    /\ mphase = Construct.mphase
    /\ out = Void
    /\ rs = Resample(Tone, 0, IdxScale, 0, 0)
    /\ env = ADSR(1, 60000, (8 * AmpScale) \div 10, 400, rate)
    /\ midi = Polling
    /\ oob = 0
    /\ op = Call("construct", 0, 0)
    /\ held = {}
    /\ nNoteOn = 0
    /\ nCtl = 0
    /\ nTicks = 0
    /\ lastPatch = -1
    /\ quiet = FALSE
    /\ run = <<>>
    /\ thread = Started

NoteOn(note, velocity) ==
    /\ nNoteOn < MaxNoteOn
    /\ Becomes(onNoteOn(Synth, note, velocity), Call("noteOn", note, velocity))
    /\ nNoteOn' = nNoteOn + 1
    /\ quiet' = FALSE
    /\ UNCHANGED <<thread, midi, env, rs, oob, nCtl, nTicks, lastPatch, run>>

NoteOff(note) ==
    /\ nCtl < MaxCtl
    /\ Becomes(onNoteOff(Synth, note), Call("noteOff", note, 0))
    /\ nCtl' = nCtl + 1
    /\ UNCHANGED <<thread, midi, env, rs, oob, nNoteOn, nTicks, lastPatch, quiet, run>>

PatchChange(value) ==
    /\ nCtl < MaxCtl
    /\ Becomes(onPatchChange(Synth, value), Call("patchChange", value, 0))
    /\ nCtl' = nCtl + 1
    /\ lastPatch' = value
    /\ quiet' = TRUE
    /\ UNCHANGED <<thread, midi, env, rs, oob, nNoteOn, nTicks, run>>

PitchWheelChange(value) ==
    /\ nCtl < MaxCtl
    /\ Becomes(onPitchWheelChange(Synth, value), Call("pitchWheelChange", value, 0))
    /\ nCtl' = nCtl + 1
    /\ UNCHANGED <<thread, midi, env, rs, oob, nNoteOn, nTicks, lastPatch, quiet, run>>

ModulationWheelChange(value) ==
    /\ nCtl < MaxCtl
    /\ Becomes(onModulationWheelChange(Synth, value), Call("modulationWheelChange", value, 0))
    /\ nCtl' = nCtl + 1
    /\ UNCHANGED <<thread, midi, env, rs, oob, nNoteOn, nTicks, lastPatch, quiet, run>>

VolumeChange(level) ==
    /\ nCtl < MaxCtl
    /\ Becomes(onVolumeChange(Synth, level), Call("volumeChange", level, 0))
    /\ nCtl' = nCtl + 1
    /\ UNCHANGED <<thread, midi, env, rs, oob, nNoteOn, nTicks, lastPatch, quiet, run>>

\* The render callback reads a sample
Output ==
    /\ op.name # "output"
    /\ out' = output(playing, vol)
    /\ op' = Call("output", 0, 0)
    /\ held' = {}
    /\ UNCHANGED <<thread, midi, env, synthVars, rs, oob, nNoteOn, nCtl, nTicks, lastPatch, quiet, run>>

\* The render callback advances a sample.  Idle samples are counted up to
\* MaxTicks; while a voice is releasing the clock always runs.
Tick ==
    /\ nTicks < MaxTicks \/ \E i \in Slots : Releasing(playing[i])
    /\ Becomes(next(Synth), Call("next", 0, 0))
    /\ nTicks' = IF \E i \in Slots : Releasing(playing[i]) THEN nTicks ELSE nTicks + 1
    /\ UNCHANGED <<thread, midi, env, rs, oob, nNoteOn, nCtl, lastPatch, quiet, run>>

Next ==
    \/ \E n \in Notes, v \in Velocities : NoteOn(n, v)
    \/ \E n \in Notes : NoteOff(n)
    \/ \E v \in PatchValues : PatchChange(v)
    \/ \E v \in WheelValues : PitchWheelChange(v)
    \/ \E v \in ModValues : ModulationWheelChange(v)
    \/ \E v \in Levels : VolumeChange(v)
    \/ Output
    \/ Tick

Spec == Init /\ [][Next]_vars

----------------------------------------------------------------------------
(* A run of noteOn calls with distinct notes on the new synthesizer: the   *)
(* notes are struck in ascending order, the first of them may be struck    *)
(* again, and idle samples pass in between.                                *)

RunNotes == 60 .. 59 + MaxRun

NoteOnFresh(note) ==
    /\ Len(run) < MaxRun
    /\ IF run = <<>> THEN TRUE ELSE note > run[Len(run)]
    /\ Becomes(onNoteOn(Synth, note, 100), Call("noteOn", note, 100))
    /\ run' = Append(run, note)
    /\ quiet' = FALSE
    /\ UNCHANGED <<thread, midi, env, rs, oob, nNoteOn, nCtl, nTicks, lastPatch>>

NoteOnAgain(velocity) ==
    /\ run # <<>>
    /\ nNoteOn < MaxAgain
    /\ Becomes(onNoteOn(Synth, run[1], velocity), Call("noteOn", run[1], velocity))
    /\ nNoteOn' = nNoteOn + 1
    /\ quiet' = FALSE
    /\ UNCHANGED <<thread, midi, env, rs, oob, nCtl, nTicks, lastPatch, run>>

NextSteal ==
    \/ \E n \in RunNotes : NoteOnFresh(n)
    \/ \E v \in Velocities : NoteOnAgain(v)
    \/ Tick

SpecSteal == Init /\ [][NextSteal]_vars

----------------------------------------------------------------------------
(* The synthesizer while the render callback keeps running: next() is called *)
(* once per sample for as long as the stream is open.  The wheels and the    *)
(* volume write none of key, vel and env and are left out; notes are struck  *)
(* at full velocity.                                                         *)

Strike(note) ==
    /\ nNoteOn < MaxStrike
    /\ NoteOn(note, 100)

NextLive ==
    \/ \E n \in Notes : Strike(n)
    \/ \E n \in Notes : NoteOff(n)
    \/ \E v \in PatchValues : PatchChange(v)
    \/ Output
    \/ Tick

LiveSpec == Init /\ [][NextLive]_vars /\ WF_vars(Tick)

----------------------------------------------------------------------------
(* A Resample on its own: short buffers of one and two channels, with and  *)
(* without a loop, driven by next(), reset(), pitchOffset() and output().  *)

MaxIndex == 7


Buffers == {AudioData(3, rate, 1, <<3, -5, 7>>),
            AudioData(2, rate, 2, <<1, 2, -3, 4>>),
            AudioData(4, rate, 1, <<2, -4, 6, -1>>)}

Factors == {IdxScale \div 2, IdxScale}

Loops == {<<0, 0>>, <<0, 1>>, <<1, 3>>}

Offsets == {-1200, 0, 1200}

\* what a read behind the buffer may find
Garbage == {-9, 9}

InitResample ==
    /\ playing = Construct.playing
    /\ newest = Construct.newest
    /\ patch = Construct.patch
    /\ bend = Construct.bend
    /\ vibrato = Construct.vibrato
    /\ vol = Construct.vol
    /\ mod = Construct.mod
    /\ mphase = Construct.mphase
    /\ out = Void
    /\ rs \in {Resample(ad, ch, f, l[1], l[2]) :
                 ad \in Buffers, ch \in 0 .. 1, f \in Factors, l \in Loops}
    /\ rs.ichannel < rs.audio_data.channels
    /\ env = ADSR(1, 60000, (8 * AmpScale) \div 10, 400, rate)
    /\ midi = Polling
    /\ oob \in Garbage
    /\ op = Call("Resample", 0, 0)
    /\ held = {}
    /\ nNoteOn = 0
    /\ nCtl = 0
    /\ nTicks = 0
    /\ lastPatch = -1
    /\ quiet = FALSE
    /\ run = <<>>
    /\ thread = Started

RsOutput ==
    /\ out' = [num |-> ResampleOutput(rs), den |-> IdxScale]
    /\ oob' \in Garbage
    /\ op' = Call("Resample.output", 0, 0)
    /\ UNCHANGED <<thread, midi, env, synthVars, rs, held, nNoteOn, nCtl, nTicks, lastPatch, quiet, run>>

RsNext ==
    /\ rs.findex + rs.speedup <= MaxIndex * IdxScale
    /\ rs' = ResampleNext(rs)
    /\ out' = Void
    /\ op' = Call("Resample.next", 0, 0)
    /\ UNCHANGED <<thread, midi, env, synthVars, oob, held, nNoteOn, nCtl, nTicks, lastPatch, quiet, run>>

\* op.b keeps the speed the call found
RsPitchOffset(cents) ==
    /\ rs' = ResamplePitchOffset(rs, cents)
    /\ out' = Void
    /\ op' = Call("Resample.pitchOffset", cents, rs.speedup)
    /\ UNCHANGED <<thread, midi, env, synthVars, oob, held, nNoteOn, nCtl, nTicks, lastPatch, quiet, run>>

RsReset ==
    /\ rs' = ResampleReset(rs)
    /\ out' = Void
    /\ op' = Call("Resample.reset", 0, 0)
    /\ UNCHANGED <<thread, midi, env, synthVars, oob, held, nNoteOn, nCtl, nTicks, lastPatch, quiet, run>>

NextResample ==
    \/ RsOutput
    \/ RsNext
    \/ \E c \in Offsets : RsPitchOffset(c)
    \/ RsReset

SpecResample == InitResample /\ [][NextResample]_vars

----------------------------------------------------------------------------
(* An ADSR on its own: envelopes at the synthesizer's rate, the one of the *)
(* voices among them, and an envelope of 1 s attack, 24 s decay, sustain   *)
(* 0.8 and 0.16 s release at 100 samples per second, driven by next(),     *)
(* sustainOff(),                                                           *)
(* reset() and output().  Here nTicks counts the next() calls and nCtl the *)
(* sustainOff() calls (at most one is counted) since the envelope was      *)
(* constructed or reset.                                                   *)

MaxEnvTicks == 160

\* the arguments of the envelopes at the synthesizer's rate: attack, decay and
\* release in 1/100 s, each either the voices' or zero, and the ends and the
\* voices' value of the sustain level in 1/1000
AttackTimes == {0, 1}
DecayTimes == {0, 60000}
SustainLevels == {0, 800, 1000}
ReleaseTimes == {0, 400}

Envelopes ==
    {ADSR(a, d, s, r, rate) :
        a \in AttackTimes, d \in DecayTimes, s \in SustainLevels, r \in ReleaseTimes}
      \cup {ADSRin(fmt, 100, 2400, 800, 16, 100) : fmt \in {"float", "double"}}

InitEnvelope ==
    /\ playing = Construct.playing
    /\ newest = Construct.newest
    /\ patch = Construct.patch
    /\ bend = Construct.bend
    /\ vibrato = Construct.vibrato
    /\ vol = Construct.vol
    /\ mod = Construct.mod
    /\ mphase = Construct.mphase
    /\ out = Void
    /\ rs = Resample(Tone, 0, IdxScale, 0, 0)
    /\ env \in Envelopes
    /\ midi = Polling
    /\ oob = 0
    /\ op = Call("ADSR", 0, 0)
    /\ held = {}
    /\ nNoteOn = 0
    /\ nCtl = 0
    /\ nTicks = 0
    /\ lastPatch = -1
    /\ quiet = FALSE
    /\ run = <<>>
    /\ thread = Started

EnvNext ==
    /\ nTicks < MaxEnvTicks
    /\ env' = ADSRnext(env)
    /\ nTicks' = nTicks + 1
    /\ out' = Void
    /\ op' = Call("ADSR.next", 0, 0)
    /\ UNCHANGED <<thread, midi, synthVars, rs, oob, held, nNoteOn, nCtl, lastPatch, quiet, run>>

EnvSustainOff ==
    /\ env' = ADSRsustainOff(env)
    /\ nCtl' = 1
    /\ out' = Void
    /\ op' = Call("ADSR.sustainOff", 0, 0)
    /\ UNCHANGED <<thread, midi, synthVars, rs, oob, held, nNoteOn, nTicks, lastPatch, quiet, run>>

EnvReset ==
    /\ env' = ADSRreset(env)
    /\ nTicks' = 0
    /\ nCtl' = 0
    /\ out' = Void
    /\ op' = Call("ADSR.reset", 0, 0)
    /\ UNCHANGED <<thread, midi, synthVars, rs, oob, held, nNoteOn, lastPatch, quiet, run>>

EnvOutput ==
    /\ out' = [num |-> ADSRoutput(env), den |-> One(env.fmt)]
    /\ op' = Call("ADSR.output", 0, 0)
    /\ UNCHANGED <<thread, midi, synthVars, rs, env, oob, held, nNoteOn, nCtl, nTicks, lastPatch,
                   quiet, run>>

NextEnvelope ==
    \/ EnvNext
    \/ EnvSustainOff
    \/ EnvReset
    \/ EnvOutput

SpecEnvelope == InitEnvelope /\ [][NextEnvelope]_vars

----------------------------------------------------------------------------
(* The event thread and the render callback side by side.  MidiIn's thread   *)
(* runs eventLoop and calls the handlers of the synthesizer; the render      *)
(* callback calls output() and next() from its own thread; neither takes a   *)
(* lock.  onNoteOn and onPatchChange are taken a statement at a time.  An    *)
(* exception that leaves eventLoop leaves the thread function, which ends    *)
(* the process.  Here nNoteOn counts the note-on messages and nCtl the       *)
(* other messages read.                                                      *)

Unrecognized == {10, 13}

\* b12 of lines 951-954 for the data bytes b1, b2
B12(b1, b2) == (b2 * 128 + b1) - 8192

\* b12 * ratio16Bit (line 987) for the wheel at rest
WheelValue(b12) == CASE b12 = 0 -> 0

Reads(cmd, b1, b2) == [Polling EXCEPT !.cmd = cmd, !.b1 = b1, !.b2 = b2]

\* the note commands read: note-off, note-on with velocity 0, note-on; <<cmd_n, b2>>
NoteMessages == {<<8, 0>>, <<9, 0>>, <<9, 100>>}

\* a switch whose case 0x9 does not look at the velocity
NoteHandlerNoVelocityTest(cmd, b2) == IF cmd = 9 THEN "noteOn" ELSE "noteOff"

\* the handler that cases 0x8 and 0x9 of the switch call
NoteHandler(cmd, b2) == IF cmd = 9 /\ b2 # 0 THEN "noteOn" ELSE "noteOff"

\* case 0x8, and case 0x9 with velocity 0
EvNoteOff(cmd, b1, b2) ==
    /\ midi.pc = "poll"
    /\ nCtl < MaxCtl
    /\ NoteHandler(cmd, b2) = "noteOff"
    /\ Becomes(onNoteOff(Synth, b1), Call("noteOff", b1, 0))
    /\ midi' = Reads(cmd, b1, b2)
    /\ nCtl' = nCtl + 1
    /\ UNCHANGED <<thread, rs, env, oob, nNoteOn, nTicks, lastPatch, quiet, run>>

\* case 0x9: onNoteOn, lines 141-172; a voice holding the key starts over,
\* otherwise the slot is chosen and lines 173-178 follow
EvNoteOn(b1, b2) ==
    /\ midi.pc = "poll"
    /\ nNoteOn < MaxStrike
    /\ NoteHandler(9, b2) = "noteOn"
    /\ LET note == b1 * CENTS_SCALE
           a == ScanLoop(playing, note, newest, MAX_NOTES, -1)
           b == IF a.hit >= 0 THEN a ELSE ScanLoop(playing, note, 0, newest, a.index)
       IN  IF b.hit >= 0
           THEN /\ playing' = [playing EXCEPT ![b.hit] = Retrigger(@, b2)]
                /\ midi' = Reads(9, b1, b2)
           ELSE /\ playing' = playing
                /\ midi' = [Reads(9, b1, b2) EXCEPT
                              !.pc = "173",
                              !.index = IF b.index < 0 THEN StealSlot(newest) ELSE b.index,
                              !.i = b.i]
    /\ op' = Call("noteOn", b1, b2)
    /\ out' = Void
    /\ held' = Holding(playing, b1)
    /\ nNoteOn' = nNoteOn + 1
    /\ quiet' = FALSE
    /\ UNCHANGED <<thread, newest, patch, bend, vibrato, vol, mod, mphase, rs, env, oob, nCtl,
                   nTicks, lastPatch, run>>

\* onNoteOn, one of lines 173-178
EvNoteOnLine ==
    /\ midi.pc \in {"173", "174", "175", "176", "177", "178"}
    /\ playing' =
         CASE midi.pc = "173" -> [playing EXCEPT ![midi.index].key = midi.b1 * CENTS_SCALE]
           [] midi.pc = "174" -> [playing EXCEPT ![midi.index].vel = midi.b2]
           [] midi.pc = "175" -> [playing EXCEPT ![midi.i].inst = patch]
           [] midi.pc = "176" -> [playing EXCEPT ![midi.index] = Play(@, rate)]
           [] midi.pc = "177" -> [playing EXCEPT ![midi.index].env = ADSRreset(@)]
           [] OTHER -> playing
    /\ newest' = IF midi.pc = "178" THEN midi.index ELSE newest
    /\ midi' = CASE midi.pc = "173" -> [midi EXCEPT !.pc = "174"]
                 [] midi.pc = "174" -> [midi EXCEPT !.pc = "175"]
                 [] midi.pc = "175" -> [midi EXCEPT !.pc = "176"]
                 [] midi.pc = "176" -> [midi EXCEPT !.pc = "177"]
                 [] midi.pc = "177" -> [midi EXCEPT !.pc = "178"]
                 [] OTHER -> Reads(midi.cmd, midi.b1, midi.b2)
    /\ UNCHANGED <<thread, patch, bend, vibrato, vol, mod, mphase, out, rs, env, oob, op, held,
                   nNoteOn, nCtl, nTicks, lastPatch, quiet, run>>

\* case 0xB: the modulation wheel (1), the channel volume (7), and any other
\* controller, which reaches onControlChange only
EvControlChange(b1, b2) ==
    /\ midi.pc = "poll"
    /\ nCtl < MaxCtl
    /\ Becomes(IF b1 = 1 THEN onModulationWheelChange(Synth, b2)
               ELSE IF b1 = 7 THEN onVolumeChange(Synth, b2)
               ELSE Synth,
               Call("controlChange", b1, b2))
    /\ midi' = Reads(11, b1, b2)
    /\ nCtl' = nCtl + 1
    /\ UNCHANGED <<thread, rs, env, oob, nNoteOn, nTicks, lastPatch, quiet, run>>

\* case 0xC: onPatchChange, line 184; the loop of lines 185-188 follows
EvPatchChange(b1) ==
    /\ midi.pc = "poll"
    /\ nCtl < MaxCtl
    /\ patch' = b1 % Max
    /\ midi' = [Reads(12, b1, 0) EXCEPT !.pc = "187"]
    /\ op' = Call("patchChange", b1, 0)
    /\ out' = Void
    /\ held' = {}
    /\ nCtl' = nCtl + 1
    /\ lastPatch' = b1
    /\ quiet' = TRUE
    /\ UNCHANGED <<thread, playing, newest, bend, vibrato, vol, mod, mphase, rs, env, oob,
                   nNoteOn, nTicks, run>>

\* onPatchChange, line 187 for voice i, and the loop's step
EvPatchChangeLine ==
    /\ midi.pc = "187"
    /\ playing' = [playing EXCEPT ![midi.i] = Note(-1, 0, patch, rate)]
    /\ midi' = IF midi.i + 1 < MAX_NOTES THEN [midi EXCEPT !.i = @ + 1]
               ELSE Reads(midi.cmd, midi.b1, midi.b2)
    /\ UNCHANGED <<thread, newest, patch, bend, vibrato, vol, mod, mphase, out, rs, env, oob, op,
                   held, nNoteOn, nCtl, nTicks, lastPatch, quiet, run>>

\* case 0xE
EvPitchWheel(b1, b2) ==
    /\ midi.pc = "poll"
    /\ nCtl < MaxCtl
    /\ Becomes(onPitchWheelChange(Synth, WheelValue(B12(b1, b2))),
               Call("pitchWheelChange", WheelValue(B12(b1, b2)), 0))
    /\ midi' = Reads(14, b1, b2)
    /\ nCtl' = nCtl + 1
    /\ UNCHANGED <<thread, rs, env, oob, nNoteOn, nTicks, lastPatch, quiet, run>>

\* default: throw std::runtime_error (lines 989-991)
EvDefault(cmd) ==
    /\ midi.pc = "poll"
    /\ nCtl < MaxCtl
    /\ midi' = [Reads(cmd, 0, 0) EXCEPT !.pc = "terminate"]
    /\ op' = Call("runtime_error", cmd, 0)
    /\ out' = Void
    /\ nCtl' = nCtl + 1
    /\ UNCHANGED <<thread, synthVars, rs, env, oob, held, nNoteOn, nTicks, lastPatch, quiet, run>>

RenderOutput == midi.pc # "terminate" /\ Output

RenderNext == midi.pc # "terminate" /\ Tick

NextMidi ==
    \/ \E m \in NoteMessages, n \in Notes : EvNoteOff(m[1], n, m[2])
    \/ \E m \in NoteMessages, n \in Notes : m[1] = 9 /\ EvNoteOn(n, m[2])
    \/ EvNoteOnLine
    \/ \E c \in {<<1, 127>>, <<7, 127>>, <<64, 127>>} : EvControlChange(c[1], c[2])
    \/ \E v \in PatchValues : EvPatchChange(v)
    \/ EvPatchChangeLine
    \/ EvPitchWheel(0, 64)
    \/ \E c \in Unrecognized : EvDefault(c)
    \/ RenderOutput
    \/ RenderNext

SpecMidi == Init /\ [][NextMidi]_vars

----------------------------------------------------------------------------
(* MidiIn from construction to destruction: the owner's thread runs the    *)
(* constructor, start(), stop() and the destructor, and the event thread   *)
(* that the constructor spawns runs eventLoop.  thread.main is where the   *)
(* owner is (a line of the constructor or destructor, or between calls),   *)
(* midi.pc where the event thread is: "none" before it exists, "poll" at   *)
(* the test of the while loop, "exited" once the loop has ended.           *)
(* thread_running and process_events are plain bools shared by the two     *)
(* threads with no synchronization: a test of thread_running finds the     *)
(* value it has, or the value the loop's previous test found, which the    *)
(* build may have kept in a register.  The messages read are note          *)
(* commands, which the switch recognizes.                                  *)

\* MidiIn::MidiIn at line 1008: the flags initialised, no thread yet
Unborn ==
    [main |-> "1008", thread_running |-> FALSE, process_events |-> FALSE,
     cached |-> {}]

InitThread ==
    /\ playing = Construct.playing
    /\ newest = Construct.newest
    /\ patch = Construct.patch
    /\ bend = Construct.bend
    /\ vibrato = Construct.vibrato
    /\ vol = Construct.vol
    /\ mod = Construct.mod
    /\ mphase = Construct.mphase
    /\ out = Void
    /\ rs = Resample(Tone, 0, IdxScale, 0, 0)
    /\ env = ADSR(1, 60000, (8 * AmpScale) \div 10, 400, rate)
    /\ midi = [Polling EXCEPT !.pc = "none"]
    /\ oob = 0
    /\ op = Call("construct", 0, 0)
    /\ held = {}
    /\ nNoteOn = 0
    /\ nCtl = 0
    /\ nTicks = 0
    /\ lastPatch = -1
    /\ quiet = FALSE
    /\ run = <<>>
    /\ thread = Unborn

\* what the steps of the owner leave alone
OwnerKeeps ==
    UNCHANGED <<synthVars, out, rs, env, oob, held, nNoteOn, nCtl, nTicks, lastPatch,
                quiet, run>>

\* lines 1008-1012: Pm_OpenInput succeeds, or fails and the constructor throws
CtorOpen ==
    /\ thread.main = "1008"
    /\ \E ok \in BOOLEAN :
         /\ thread' = [thread EXCEPT !.main = IF ok THEN "1013" ELSE "failed"]
         /\ op' = IF ok THEN op ELSE Call("runtime_error", 0, 0)
    /\ midi' = midi
    /\ OwnerKeeps

\* line 1013: the event thread is created and stands at the test of its loop
CtorSpawn ==
    /\ thread.main = "1013"
    /\ thread' = [thread EXCEPT !.main = "1018"]
    /\ midi' = [midi EXCEPT !.pc = "poll"]
    /\ op' = Call("thread", 0, 0)
    /\ OwnerKeeps

\* line 1018, and the return of the constructor
CtorRunning ==
    /\ thread.main = "1018"
    /\ thread' = [thread EXCEPT !.main = "constructed", !.thread_running = TRUE]
    /\ midi' = midi
    /\ op' = Call("MidiIn", 0, 0)
    /\ OwnerKeeps

\* MidiIn::start()
ThreadStart ==
    /\ thread.main = "constructed"
    /\ thread' = [thread EXCEPT !.process_events = TRUE]
    /\ midi' = midi
    /\ op' = Call("start", 0, 0)
    /\ OwnerKeeps

\* MidiIn::stop()
ThreadStop ==
    /\ thread.main = "constructed"
    /\ thread' = [thread EXCEPT !.process_events = FALSE]
    /\ midi' = midi
    /\ op' = Call("stop", 0, 0)
    /\ OwnerKeeps

\* ~MidiIn, line 1029: stop()
DtorStop ==
    /\ thread.main = "constructed"
    /\ thread' = [thread EXCEPT !.main = "1030", !.process_events = FALSE]
    /\ midi' = midi
    /\ op' = Call("~MidiIn", 0, 0)
    /\ OwnerKeeps

\* ~MidiIn, line 1030
DtorClear ==
    /\ thread.main = "1030"
    /\ thread' = [thread EXCEPT !.main = "1031", !.thread_running = FALSE]
    /\ midi' = midi
    /\ UNCHANGED op
    /\ OwnerKeeps

\* ~MidiIn, lines 1031-1034: join() returns once eventLoop has returned
DtorJoin ==
    /\ thread.main = "1031"
    /\ midi.pc = "exited"
    /\ thread' = [thread EXCEPT !.main = "destroyed"]
    /\ midi' = [midi EXCEPT !.pc = "none"]
    /\ UNCHANGED op
    /\ OwnerKeeps

\* the values a test of thread_running (line 935) may find
Seen == {thread.thread_running} \cup thread.cached

\* line 935, with no message handled in the iteration: the loop ends when the
\* test finds thread_running clear, and goes round when it finds it set
LoopTest ==
    /\ midi.pc = "poll"
    /\ \E v \in Seen :
         /\ midi' = IF v THEN midi ELSE [midi EXCEPT !.pc = "exited"]
         /\ thread' = [thread EXCEPT !.cached = {v}]
    /\ UNCHANGED op
    /\ OwnerKeeps

\* lines 935-968: the tests of thread_running and process_events pass and a note
\* command is read and dispatched
LoopNote ==
    /\ TRUE \in Seen
    /\ thread.process_events
    /\ \E m \in NoteMessages, n \in Notes :
         \/ EvNoteOff(m[1], n, m[2])
         \/ m[1] = 9 /\ EvNoteOn(n, m[2])

NextThread ==
    \/ CtorOpen
    \/ CtorSpawn
    \/ CtorRunning
    \/ ThreadStart
    \/ ThreadStop
    \/ DtorStop
    \/ DtorClear
    \/ DtorJoin
    \/ LoopTest
    \/ LoopNote
    \/ EvNoteOnLine

SpecThread == InitThread /\ [][NextThread]_vars

----------------------------------------------------------------------------
(* Claims about the voice pool *)

Key(note) == note * CENTS_SCALE

Active(p) == {i \in Slots : p[i].key >= 0}

\* The first inactive slot met from slot nw on, wrapping at the pool's end
FirstInactiveFrom(p, nw) ==
    CHOOSE i \in Slots \ Active(p) :
        \A j \in Slots \ Active(p) : (i - nw) % MAX_NOTES <= (j - nw) % MAX_NOTES

\* C1: a noteOn whose key no voice holds takes the first inactive slot met when
\* scanning from 'newest' with wraparound and overwrites no active voice; it
\* steals slot (newest+1) mod N only when no voice of the pool is inactive.
C1_FirstFreeSlot ==
    [][(op'.name = "noteOn" /\ \A i \in Slots : playing[i].key # Key(op'.a)) =>
         IF Active(playing) # Slots
         THEN /\ newest' = FirstInactiveFrom(playing, newest)
              /\ playing'[newest'].key = Key(op'.a)
              /\ \A i \in Active(playing) : playing'[i].key = playing[i].key
         ELSE /\ newest' = (newest + 1) % MAX_NOTES
              /\ playing'[newest'].key = Key(op'.a)]_vars

\* C2: on a new pool, the 11th of 11 noteOn calls with distinct notes takes the
\* slot after 'newest', which holds the first note: that key is gone, the other
\* nine voices keep their keys, ten voices are active, 'newest' is the stolen slot.
C2_EleventhNoteSteals ==
    /\ (Len(run) = MAX_NOTES /\ nNoteOn = 0) =>
          /\ newest = 0
          /\ \A k \in 1 .. MAX_NOTES : playing[k % MAX_NOTES].key = Key(run[k])
    /\ (Len(run) = MAX_NOTES + 1 /\ nNoteOn = 0) =>
          /\ newest = 1
          /\ playing[1].key = Key(run[MAX_NOTES + 1])
          /\ \A i \in Slots : playing[i].key # Key(run[1])
          /\ \A k \in 2 .. MAX_NOTES : playing[k % MAX_NOTES].key = Key(run[k])
          /\ Cardinality(Active(playing)) = MAX_NOTES

C2_Witness ==
    Len(run) = MAX_NOTES + 1 /\ nNoteOn = 0 /\ op.name = "noteOn" /\ nTicks > 0

\* C3: noteOn for a key a voice holds, in any envelope phase, restarts that voice
\* (velocity refreshed, envelope at Attack with amplitude 0, index 0) and leaves
\* its sample assignment, the active voices, the other voices and 'newest' alone.
C3_Retrigger ==
    [][\A i \in Slots :
         (op'.name = "noteOn" /\ playing[i].key = Key(op'.a)) =>
             /\ playing'[i].key = playing[i].key
             /\ playing'[i].vel = op'.b
             /\ playing'[i].env.current_mode = "ATTACK"
             /\ playing'[i].env.envelope = 0
             /\ playing'[i].phase.findex = 0
             /\ playing'[i].inst = playing[i].inst
             /\ playing'[i].phase.audio_data = playing[i].phase.audio_data
             /\ playing'[i].phase.multiplier = playing[i].phase.multiplier
             /\ playing'[i].phase.iloop_bgn = playing[i].phase.iloop_bgn
             /\ playing'[i].phase.iloop_end = playing[i].phase.iloop_end
             /\ Active(playing') = Active(playing)
             /\ \A j \in Slots \ {i} : playing'[j] = playing[j]
             /\ newest' = newest]_vars

C3_Witness ==
    /\ op.name = "noteOn"
    /\ \E h \in held : h.mode = "RELEASE"
    /\ \E i \in Slots : playing[i].key >= 0 /\ playing[i].key # Key(op.a)

\* C4: noteOn always completes and leaves a voice holding key note*100 with its
\* envelope in Attack at amplitude 0, also when all voices were active.
C4_NoteOnAlwaysPlaces ==
    op.name = "noteOn" =>
        \E i \in Slots :
            /\ playing[i].key = Key(op.a)
            /\ playing[i].env.current_mode = "ATTACK"
            /\ playing[i].env.envelope = 0

\* the first note of a full run, stolen by the 11th, struck once more
C4_Witness ==
    /\ op.name = "noteOn"
    /\ Len(run) = MAX_NOTES + 1
    /\ nNoteOn = 1
    /\ held = {}
    /\ Active(playing) = Slots

\* C5: from a patchChange to the next noteOn every voice is inactive with
\* velocity 0 and output() is 0.
C5_PatchChangeSilences ==
    quiet =>
        /\ \A i \in Slots : playing[i].key = -1 /\ playing[i].vel = 0
        /\ output(playing, vol).num = 0

C5_Witness == quiet /\ nNoteOn > 0 /\ op.name = "next"

\* (value mod instrument count) of the latest patchChange, else the default
CurrentPatch == IF lastPatch = -1 THEN Default ELSE lastPatch % Max

\* C6: the slot a non-retrigger noteOn chooses carries the current patch when
\* Play picks its sample region.
C6_NewNoteUsesPatch ==
    (op.name = "noteOn" /\ held = {}) =>
        /\ patch = CurrentPatch
        /\ playing[newest].key = Key(op.a)
        /\ playing[newest].inst = CurrentPatch
        /\ playing[newest].phase =
               Play([playing[newest] EXCEPT !.inst = CurrentPatch], rate).phase

C6_Witness == op.name = "noteOn" /\ held = {} /\ lastPatch = 5 /\ newest = 2

\* C7: noteOff(note) moves the envelope of every voice holding key note*100 to
\* Release and changes nothing else.
C7_NoteOffOnlyReleases ==
    [][op'.name = "noteOff" =>
         /\ \A i \in Slots :
               playing'[i] = IF playing[i].key = Key(op'.a)
                             THEN [playing[i] EXCEPT !.env.current_mode = "RELEASE"]
                             ELSE playing[i]
         /\ UNCHANGED <<newest, patch, bend, vibrato, vol, mod, mphase>>]_vars

C7_Witness ==
    /\ op.name = "noteOff"
    /\ held # {}
    /\ \E i \in Slots : playing[i].key >= 0 /\ playing[i].key # Key(op.a)

C7_NoOpWitness == op.name = "noteOff" /\ held = {} /\ Active(playing) # {}

RECURSIVE SumOutputs(_, _)
SumOutputs(p, S) ==
    IF S = {} THEN 0
    ELSE LET i == CHOOSE j \in S : TRUE
         IN  NoteOutput(p[i]) + SumOutputs(p, S \ {i})

\* C9: output() returns the volume times the sum of Note::output() over exactly
\* the voices with key >= 0, whatever state the inactive voices are in, and
\* changes no state.
C9_OutputSumsActiveVoices ==
    [][op'.name = "output" =>
         /\ out'.num = vol[1] * SumOutputs(playing, Active(playing))
         /\ out'.den = vol[2]
         /\ UNCHANGED synthVars]_vars

\* an inactive voice whose resampler and envelope would still sound, next to a
\* sounding one
C9_Witness ==
    /\ op.name = "output"
    /\ out.num # 0
    /\ \E i \in Slots \ Active(playing) : NoteOutput(playing[i]) # 0

----------------------------------------------------------------------------
(* Claims about release and about the resampler *)

Silent(i) == playing[i].key = -1 /\ playing[i].vel = 0

\* slot i has just been given to a noteOn, by retrigger or by allocation
Restruck(i) == op.name = "noteOn" /\ playing[i].key = Key(op.a)

\* C8: a voice released by noteOff, with samples still being rendered, becomes
\* inactive (key -1, velocity 0) unless a noteOn takes its slot first; an
\* inactive voice contributes 0 to output(), and only a noteOn makes a slot
\* active again.
C8_ReleasedVoiceFallsSilent ==
    /\ \A i \in Slots : Releasing(playing[i]) ~> (Silent(i) \/ Restruck(i))
    /\ [](\A i \in Slots : playing[i].key = -1 => Contribution(playing[i]) = 0)
    /\ [][\A i \in Slots : (playing[i].key = -1 /\ playing'[i].key # -1) =>
                               op'.name = "noteOn"]_vars

\* a voice that next() has reclaimed after it faded from an audible level,
\* seen by output()
C8_Witness ==
    /\ op.name = "output"
    /\ out.num = 0
    /\ \E i \in Slots : /\ Silent(i)
                        /\ playing[i].env.current_mode = "RELEASE"
                        /\ 0 < ADSRoutput(playing[i].env)
                        /\ ADSRoutput(playing[i].env) < EPSILON

\* C10: output() of a non-looping resampler whose index is exactly the integer
\* k, 0 <= k <= frames-1, is the sample of frame k on the selected channel.
C10_ExactSampleAtFrame ==
    LET ad == rs.audio_data
        k == rs.findex \div IdxScale
    IN  (/\ op.name = "Resample.output"
         /\ ~(rs.iloop_bgn < rs.iloop_end)
         /\ rs.findex % IdxScale = 0
         /\ k <= ad.frames - 1) =>
            out.num = DataAt(ad, k * ad.channels + rs.ichannel) * IdxScale

\* the same before the last frame
C10_ExactSampleBeforeLast ==
    LET ad == rs.audio_data
        k == rs.findex \div IdxScale
    IN  (/\ op.name = "Resample.output"
         /\ ~(rs.iloop_bgn < rs.iloop_end)
         /\ rs.findex % IdxScale = 0
         /\ k < ad.frames - 1) =>
            out.num = DataAt(ad, k * ad.channels + rs.ichannel) * IdxScale

C10_LastFrameRead ==
    /\ op.name = "Resample.output"
    /\ ~(rs.iloop_bgn < rs.iloop_end)
    /\ rs.findex = (rs.audio_data.frames - 1) * IdxScale
    /\ out.num = 0

Looping(r) == r.iloop_bgn < r.iloop_end

\* the source between frame x \div IdxScale and the next, in 1/IdxScale
LerpAt(ad, channel, x) ==
    LET i == x \div IdxScale
        t == x % IdxScale
    IN  (IdxScale - t) * ad.data[i * ad.channels + channel + 1]
          + t * ad.data[(i + 1) * ad.channels + channel + 1]

\* loop_begin + ((index - loop_begin) mod (loop_end - loop_begin))
Folded(r) ==
    r.iloop_bgn * IdxScale
      + ((r.findex - r.iloop_bgn * IdxScale) % ((r.iloop_end - r.iloop_bgn) * IdxScale))

\* C11: output() of a looping resampler (loop_bgn < loop_end <= frames-1) whose
\* index is past loop_end is the source interpolated at the folded index, which
\* lies in [loop_bgn, loop_end); one loop length further on the output is the same.
C11_LoopFolds ==
    (/\ op.name = "Resample.output"
     /\ Looping(rs)
     /\ rs.iloop_end <= rs.audio_data.frames - 1
     /\ rs.findex > rs.iloop_end * IdxScale) =>
        /\ rs.iloop_bgn * IdxScale <= Folded(rs)
        /\ Folded(rs) < rs.iloop_end * IdxScale
        /\ out.num = LerpAt(rs.audio_data, rs.ichannel, Folded(rs))
        /\ ResampleOutput([rs EXCEPT !.findex = @ + (rs.iloop_end - rs.iloop_bgn) * IdxScale])
             = out.num

\* a fractional index more than one loop length past the end of a loop that
\* does not begin at frame 0
C11_Witness ==
    /\ op.name = "Resample.output"
    /\ Looping(rs)
    /\ rs.iloop_bgn > 0
    /\ rs.iloop_end <= rs.audio_data.frames - 1
    /\ rs.findex > (2 * rs.iloop_end - rs.iloop_bgn) * IdxScale
    /\ rs.findex % IdxScale # 0
    /\ out.num # 0

\* C12: pitchOffset(c) sets the speed to the base speed times 2^(c/1200) whatever
\* the speed was before (at whole octaves: the base speed doubled or halved
\* c/1200 times), leaves the base speed, the index and the loop alone, and
\* pitchOffset(0) gives exactly the base speed.
C12_PitchOffsetAbsolute ==
    [][op'.name = "Resample.pitchOffset" =>
         LET c == op'.a
             q == c \div 1200
         IN  /\ rs' = [rs EXCEPT !.speedup = rs'.speedup]
             /\ (c = 0) => rs'.speedup = rs.multiplier
             /\ (c % 1200 = 0 /\ q >= 0) => rs'.speedup = rs.multiplier * Pow2(q)
             /\ (c % 1200 = 0 /\ q < 0) => rs'.speedup * Pow2(-q) = rs.multiplier]_vars

\* pitchOffset(0) on a resampler that an earlier pitchOffset had sped up or
\* slowed down, and pitchOffset one octave down on one that ran an octave up
C12_Witness ==
    /\ op.name = "Resample.pitchOffset"
    /\ op.b # rs.multiplier
    /\ \/ op.a = 0 /\ rs.speedup = rs.multiplier
       \/ op.a = -1200 /\ op.b = 2 * rs.multiplier /\ 2 * rs.speedup = rs.multiplier

\* the test of line 71: the index is within 0.001 behind the end of the source
NearEnd(r) ==
    /\ r.audio_data.frames = Trunc(r.findex)
    /\ (r.findex - Trunc(r.findex) * IdxScale) * 1000 < IdxScale

\* the sample of the final frame on the selected channel
FinalSample(r) ==
    r.audio_data.data[(r.audio_data.frames - 1) * r.audio_data.channels
                        + r.ichannel + 1]

\* C24: output() of a non-looping resampler whose index is past the last frame
\* (index > frames-1) is the final source sample where the index is within the
\* small epsilon of the end, and 0 elsewhere.
C24_PastEndFinalOrZero ==
    (/\ op.name = "Resample.output"
     /\ ~Looping(rs)
     /\ rs.findex > (rs.audio_data.frames - 1) * IdxScale) =>
        out.num = IF NearEnd(rs) THEN FinalSample(rs) * IdxScale ELSE 0

\* the same away from the end: 0
C24_ZeroAwayFromEnd ==
    (/\ op.name = "Resample.output"
     /\ ~Looping(rs)
     /\ rs.findex > (rs.audio_data.frames - 1) * IdxScale
     /\ ~NearEnd(rs)) =>
        out.num = 0

\* at the end output() has returned what lies behind the buffer
C24_ReadBehindBuffer ==
    /\ op.name = "Resample.output"
    /\ ~Looping(rs)
    /\ NearEnd(rs)
    /\ out.num \in {g * IdxScale : g \in Garbage}
    /\ out.num # FinalSample(rs) * IdxScale

\* C29: output() never reads outside the source: for every index >= 0, channel
\* below the channel count, and no loop or loop_bgn < loop_end <= frames, every
\* frame it reads is one of 0 .. frames-1.
C29_ReadsInsideBuffer ==
    (/\ op.name = "Resample.output"
     /\ rs.findex >= 0
     /\ rs.ichannel < rs.audio_data.channels
     /\ ~Looping(rs) \/ rs.iloop_end <= rs.audio_data.frames) =>
        FramesRead(rs) \subseteq 0 .. rs.audio_data.frames - 1

\* the same while the index is not at the end of the source
C29_ReadsInsideBeforeEnd ==
    (/\ op.name = "Resample.output"
     /\ ~NearEnd(rs)
     /\ ~Looping(rs) \/ rs.iloop_end <= rs.audio_data.frames) =>
        FramesRead(rs) \subseteq 0 .. rs.audio_data.frames - 1

\* a loop that ends with the source, the index on its end: frame 'frames' is read
C29_LoopEndRead ==
    /\ op.name = "Resample.output"
    /\ Looping(rs)
    /\ rs.iloop_end = rs.audio_data.frames
    /\ rs.findex = rs.iloop_end * IdxScale
    /\ rs.audio_data.frames \in FramesRead(rs)

----------------------------------------------------------------------------
(* Claims about the envelope *)

\* an envelope of attack_seconds = 1 at sample_rate = 100
Attack1s(e) ==
    e.fmt # "milli" /\ e.attack_increment = linearDegradeRateIn(e.fmt, 100, 100)

\* C13: with attack_seconds = 1 and sample_rate = 100, counting next() calls from
\* reset: after each of the first 99 the amplitude is below 1.0 and the phase is
\* Attack, after the 100th the amplitude is 1.0 and the phase is Decay.
C13_AttackTakes100 ==
    (Attack1s(env) /\ nCtl = 0) =>
        /\ nTicks \in 1 .. 99 =>
              env.envelope < One(env.fmt) /\ env.current_mode = "ATTACK"
        /\ nTicks = 100 =>
              env.envelope = One(env.fmt) /\ env.current_mode = "DECAY"

\* what the envelope does: the sum of 100 increments of float(1/100) is below
\* 1.0, and the 101st next() ends the attack
C13_AttackTakes101 ==
    (Attack1s(env) /\ nCtl = 0) =>
        /\ nTicks \in 1 .. 100 =>
              env.envelope < One(env.fmt) /\ env.current_mode = "ATTACK"
        /\ nTicks = 101 =>
              env.envelope = One(env.fmt) /\ env.current_mode = "DECAY"

C13_StillAttackAt100 ==
    /\ Attack1s(env)
    /\ nCtl = 0
    /\ nTicks = 100
    /\ env.current_mode = "ATTACK"
    /\ op.name = "ADSR.next"

\* C14: in Decay the amplitude is never below sustain_level; a next() made in
\* Decay leaves the phase at Decay and the amplitude at or above sustain_level,
\* and once the amplitude is sustain_level it stays exactly there.
C14_DecayStopsAtSustain ==
    /\ [](env.current_mode = "DECAY" => env.envelope >= env.sustain_level)
    /\ [][(op'.name = "ADSR.next" /\ env.current_mode = "DECAY") =>
            /\ env'.current_mode = "DECAY"
            /\ env'.envelope >= env.sustain_level
            /\ env'.envelope <= env.envelope
            /\ env.envelope = env.sustain_level => env' = env]_vars

\* an envelope that has sat at the sustain level, still in Decay, long after the
\* decay got there
C14_Witness ==
    /\ op.name = "ADSR.next"
    /\ env.current_mode = "DECAY"
    /\ env.envelope = env.sustain_level
    /\ nCtl = 0
    /\ nTicks = MaxEnvTicks

\* C15 as stated: every next() made after sustainOff() gives a strictly smaller
\* output than the one before, and never an amplitude of exactly 0.
C15_ReleaseStrictlyDecreases ==
    [][(op'.name = "ADSR.next" /\ env.current_mode = "RELEASE") =>
         /\ ADSRoutput(env') < ADSRoutput(env)
         /\ ADSRoutput(env') # 0]_vars

\* the silence threshold of the pool, 0.01, in the envelope's format
Audible(e) == e.envelope >= One(e.fmt) \div 100

\* C15 as amended: a next() made after sustainOff() keeps the phase at Release
\* and never raises the output; the output is strictly smaller while the
\* amplitude is at least 0.01, and an amplitude of 0 stays 0.
C15_ReleaseNeverRises ==
    [][(op'.name = "ADSR.next" /\ env.current_mode = "RELEASE") =>
         /\ env'.current_mode = "RELEASE"
         /\ ADSRoutput(env') <= ADSRoutput(env)
         /\ Audible(env) => ADSRoutput(env') < ADSRoutput(env)
         /\ ADSRoutput(env) = 0 => ADSRoutput(env') = 0]_vars

\* a release begun right after reset, at amplitude 0, and one tick into it
C15_Witness ==
    /\ op.name = "ADSR.next"
    /\ env.current_mode = "RELEASE"
    /\ env.envelope = 0
    /\ nTicks = 1
    /\ nCtl = 1

\* a release from an audible level, some ticks into it
C15_AudibleWitness ==
    /\ op.name = "ADSR.next"
    /\ env.current_mode = "RELEASE"
    /\ Audible(env)
    /\ env.envelope < env.sustain_level

\* the envelope as its constructor left it: the one of Envelopes with the
\* settings of e, which no operation changes
Constructed(e) ==
    CHOOSE c \in Envelopes :
        /\ c.fmt = e.fmt
        /\ c.sustain_level = e.sustain_level
        /\ c.attack_increment = e.attack_increment
        /\ c.decay_factor = e.decay_factor
        /\ c.release_factor = e.release_factor

\* C21: reset(), from any state, sets the phase to Attack and the amplitude to 0
\* when attack_seconds > 0 and to 1 when attack_seconds = 0: the state the
\* constructor produced.
C21_ResetRestoresConstructed ==
    op.name = "ADSR.reset" =>
        /\ env.current_mode = "ATTACK"
        /\ env.envelope = Constructed(env).envelope
        /\ env = Constructed(env)

\* what reset() does: Attack at amplitude 0, whatever the attack time
C21_ResetZeroes ==
    op.name = "ADSR.reset" => env.current_mode = "ATTACK" /\ env.envelope = 0

\* an envelope of attack_seconds = 0, constructed at 1.0, reset to 0
C21_ResetBelowConstructed ==
    /\ op.name = "ADSR.reset"
    /\ Constructed(env).envelope = One(env.fmt)
    /\ env.envelope = 0

\* C22: with sustain_level in [0,1], the amplitude that output() returns lies in
\* [0,1] after any sequence of next(), sustainOff() and reset().
C22_AmplitudeInUnitRange ==
    /\ env.sustain_level \in 0 .. One(env.fmt)
    /\ ADSRoutput(env) \in 0 .. One(env.fmt)
    /\ op.name = "ADSR.output" => out.num \in 0 .. out.den

\* the attack has just been cut off at 1.0, where the last increment overshot
C22_Witness ==
    /\ op.name = "ADSR.next"
    /\ env.current_mode = "DECAY"
    /\ env.envelope = One(env.fmt)
    /\ nTicks = 1
    /\ env.attack_increment > One(env.fmt)

\* C23 as stated: with decay_seconds = 0 a next() in Decay gives amplitude 0, and
\* with release_seconds = 0 a next() in Release gives amplitude 0, whatever the
\* sustain level.
C23_ZeroTimeSilences ==
    [][op'.name = "ADSR.next" =>
         /\ (env.current_mode = "DECAY" /\ Constructed(env).decay_factor = 0)
               => env'.envelope = 0
         /\ (env.current_mode = "RELEASE" /\ Constructed(env).release_factor = 0)
               => env'.envelope = 0]_vars

\* C23 as amended: with decay_seconds = 0 a next() in Decay gives the sustain
\* level, the phase staying Decay; with release_seconds = 0 a next() in Release
\* gives amplitude 0.
C23_ZeroTimeJumps ==
    [][op'.name = "ADSR.next" =>
         /\ (env.current_mode = "DECAY" /\ Constructed(env).decay_factor = 0)
               => /\ env'.envelope = env.sustain_level
                  /\ env'.current_mode = "DECAY"
         /\ (env.current_mode = "RELEASE" /\ Constructed(env).release_factor = 0)
               => /\ env'.envelope = 0
                  /\ env'.current_mode = "RELEASE"]_vars

\* a decay of no duration, one next() after the attack ended: at the sustain
\* level 0.8, not silent
C23_Witness ==
    /\ op.name = "ADSR.next"
    /\ env.current_mode = "DECAY"
    /\ env.decay_factor = 0
    /\ env.sustain_level = 8 * (One(env.fmt) \div 10)
    /\ env.envelope = env.sustain_level
    /\ nTicks = 2
    /\ nCtl = 0

\* a release of no duration, begun at the sustain level and silent one next()
\* later
C23_ReleaseWitness ==
    /\ op.name = "ADSR.next"
    /\ env.current_mode = "RELEASE"
    /\ env.release_factor = 0
    /\ env.sustain_level > 0
    /\ env.envelope = 0
    /\ nTicks = 3
    /\ nCtl = 1

\* C30: no sequence of envelope operations puts the envelope in Sustain: the
\* phase is Attack, Decay or Release; only next() takes Attack to Decay, only
\* sustainOff() takes a phase to Release and only reset() leaves Release.
C30_SustainNeverEntered ==
    /\ [](env.current_mode \in {"ATTACK", "DECAY", "RELEASE"})
    /\ [][/\ (env.current_mode = "ATTACK" /\ env'.current_mode = "DECAY")
               => op'.name = "ADSR.next"
          /\ (env.current_mode # "RELEASE" /\ env'.current_mode = "RELEASE")
               => op'.name = "ADSR.sustainOff"
          /\ (env.current_mode = "RELEASE" /\ env'.current_mode # "RELEASE")
               => op'.name = "ADSR.reset" /\ env'.current_mode = "ATTACK"
          /\ env.current_mode # env'.current_mode
               => \/ env'.current_mode = "RELEASE"
                  \/ env.current_mode = "ATTACK" /\ env'.current_mode = "DECAY"
                  \/ env'.current_mode = "ATTACK" /\ op'.name = "ADSR.reset"]_vars

\* the decay has come down to a sustain level below 1.0 and next() has been
\* called on it there: the phase is still Decay
C30_Witness ==
    /\ op.name = "ADSR.next"
    /\ env.current_mode = "DECAY"
    /\ env.sustain_level < One(env.fmt)
    /\ env.envelope = env.sustain_level
    /\ nTicks > 60
    /\ nCtl = 0
    /\ nTicks > 100

----------------------------------------------------------------------------
(* Claims about a voice's tick and about pitch *)

\* the voices as the pool's next() hands them to Note::next(), line 117
Handed == ModStep(Synth).playing

Faded(n) == n.env.current_mode = "RELEASE" /\ n.env.envelope < EPSILON

\* C18: Note::next() changes nothing on an inactive voice; it deactivates an
\* active voice in Release below 0.01 (key -1, velocity 0) without advancing its
\* index or envelope; it advances index and envelope of any other voice by one
\* step and leaves key and velocity alone.
C18_VoiceTick ==
    [][op'.name = "next" =>
         \A i \in Slots :
            LET v == Handed[i]
                w == playing'[i]
            IN  /\ v.key = -1 => w = v
                /\ (v.key # -1 /\ Faded(v)) =>
                      /\ w.key = -1 /\ w.vel = 0
                      /\ w.phase.findex = v.phase.findex
                      /\ w.env = v.env
                /\ (v.key # -1 /\ ~Faded(v)) =>
                      /\ w.key = v.key /\ w.vel = v.vel
                      /\ w.phase = [v.phase EXCEPT !.findex = @ + v.phase.speedup]
                      /\ w.env.envelope =
                            IF v.env.current_mode = "DECAY"
                            THEN IF (v.env.envelope * v.env.decay_factor) \div AmpScale
                                       <= v.env.sustain_level
                                 THEN v.env.sustain_level
                                 ELSE (v.env.envelope * v.env.decay_factor) \div AmpScale
                            ELSE IF v.env.current_mode = "RELEASE"
                            THEN (v.env.envelope * v.env.release_factor) \div AmpScale
                            ELSE IF v.env.envelope + v.env.attack_increment >= AmpScale
                            THEN AmpScale
                            ELSE v.env.envelope + v.env.attack_increment]_vars

\* a tick after which one voice has been reclaimed from an audible release while
\* another, past its attack, goes on sounding, next to voices never used
C18_Witness ==
    /\ op.name = "next"
    /\ \E i \in Slots : /\ Silent(i)
                        /\ playing[i].env.current_mode = "RELEASE"
                        /\ 0 < playing[i].env.envelope
    /\ \E j \in Slots : /\ playing[j].key >= 0
                        /\ playing[j].env.current_mode = "DECAY"
                        /\ playing[j].phase.findex > IdxScale
    /\ \E k \in Slots : playing[k].key = -1 /\ playing[k].env.current_mode = "ATTACK"

\* C19: next() with vibrato on and pitchWheelChange leave the resampler speed of
\* every inactive voice as it was.
C19_InactiveSpeedKept ==
    [][op'.name \in {"next", "pitchWheelChange"} =>
         \A i \in Slots :
            playing[i].key < 0 => playing'[i].phase.speedup = playing[i].phase.speedup]_vars

\* what the code does: pitchWheelChange sets the speed of an inactive voice from
\* bend and its key of -1
C19_InactiveSpeedSet ==
    [][op'.name = "pitchWheelChange" =>
         \A i \in Slots :
            playing[i].key < 0 =>
               playing'[i].phase.speedup =
                  (playing[i].phase.multiplier * Pow2Cents(bend' - 1 - A440_CENTS))
                     \div PitchScale]_vars

\* C20: pitchWheelChange(v) sets bend to 200*v cents and the speed of every
\* active voice to its base speed at an offset of bend + key - 6900 cents,
\* whatever vibrato term the latest tick had applied; it changes nothing else of
\* any voice, nor vibrato, volume, patch, newest or the modulation state.
C20_PitchWheelSetsBend ==
    [][op'.name = "pitchWheelChange" =>
         /\ bend' = 200 * op'.a
         /\ \A i \in Slots :
               /\ playing'[i] = [playing[i] EXCEPT !.phase.speedup = playing'[i].phase.speedup]
               /\ playing[i].key >= 0 =>
                     playing'[i].phase.speedup =
                        (playing[i].phase.multiplier
                           * Pow2Cents(bend' + playing[i].key - 6900)) \div PitchScale
         /\ UNCHANGED <<newest, patch, vibrato, vol, mod, mphase>>]_vars

\* a pitch wheel change made while an active voice ran at a speed that included
\* a vibrato term
C20_Witness ==
    /\ op.name = "pitchWheelChange"
    /\ bend # 0
    /\ mod # 0
    /\ \E i \in Slots : playing[i].key >= 0 /\ playing[i].phase.findex > IdxScale

----------------------------------------------------------------------------
(* Claims about the event thread *)

\* C16: a message whose command is none of note off (8), note on (9), control
\* change (11), program change (12) and pitch wheel (14) is ignored: the event
\* thread goes on polling, no handler has run, the pool is unchanged and no
\* error is raised.
C16_UnknownCommandIgnored ==
    [][(midi.pc = "poll" /\ nCtl' = nCtl + 1 /\ midi'.cmd \notin {8, 9, 11, 12, 14}) =>
         /\ midi'.pc = "poll"
         /\ op'.name # "runtime_error"
         /\ UNCHANGED synthVars]_vars

\* the event thread gone after a polyphonic key pressure or channel pressure
\* message, the pool as it was
C16_ThreadGone ==
    /\ midi.pc = "terminate"
    /\ midi.cmd \in Unrecognized
    /\ op.name = "runtime_error"

\* the resampler of a voice plays the sample region and base speed that Play
\* assigns for the voice's key and instrument
OwnSound(n) ==
    LET q == Play(n, rate).phase
    IN  /\ n.phase.audio_data = q.audio_data
        /\ n.phase.ichannel = q.ichannel
        /\ n.phase.multiplier = q.multiplier
        /\ n.phase.iloop_bgn = q.iloop_bgn
        /\ n.phase.iloop_end = q.iloop_end

\* no voice is between two notes and the pool is not between two patches
Whole ==
    /\ \A i \in Slots : playing[i].inst = patch
    /\ \A i \in Slots : playing[i].key >= 0 => OwnSound(playing[i])

\* C17: what output() and next() find is never the middle of a control event:
\* no voice carries the key of a new note with the resampler of the slot's
\* previous note, and the pool is never partly reset by a patch change.
C17_RenderSeesWholeEvents ==
    op.name \in {"output", "next"} => Whole

\* with the handlers run one after the other, whole, the pool is whole at
\* every call
C17_WholeWhenSerial == Whole

\* output() called between lines 173 and 176 of onNoteOn
C17_TornNoteOn ==
    /\ op.name = "output"
    /\ midi.pc \in {"174", "175", "176"}
    /\ playing[midi.index].key = midi.b1 * CENTS_SCALE
    /\ ~OwnSound(playing[midi.index])

\* output() called inside the loop of onPatchChange
C17_TornPatchChange ==
    /\ op.name = "output"
    /\ midi.pc = "187"
    /\ \E i \in Slots : playing[i].inst # patch /\ playing[i].key >= 0
    /\ out.num # 0

\* C25: a note-on event with velocity 0 is dispatched as noteOff for its note and
\* never reaches noteOn: no voice is allocated, stolen or started over, and every
\* voice holding the key goes to Release.
C25_NoteOnZeroIsNoteOff ==
    [][(/\ midi'.cmd = 9
        /\ midi'.b2 = 0
        /\ nCtl' # nCtl \/ nNoteOn' # nNoteOn) =>
          /\ op' = Call("noteOff", midi'.b1, 0)
          /\ nNoteOn' = nNoteOn
          /\ midi'.pc = "poll"
          /\ newest' = newest
          /\ \A i \in Slots :
               /\ playing'[i].key = playing[i].key
               /\ playing'[i].vel = playing[i].vel
               /\ playing'[i].inst = playing[i].inst
               /\ playing'[i].phase = playing[i].phase
               /\ playing'[i].env.envelope = playing[i].env.envelope
               /\ IF playing[i].key = Key(midi'.b1)
                  THEN playing'[i].env.current_mode = "RELEASE"
                  ELSE playing'[i] = playing[i]]_vars

\* a note-on with velocity 0 has been read for a key that a voice held in Attack
\* or Decay: the voice is in Release, and still the newest
C25_Witness ==
    /\ midi.cmd = 9
    /\ midi.b2 = 0
    /\ op = Call("noteOff", midi.b1, 0)
    /\ \E h \in held : /\ h.mode # "RELEASE"
                       /\ h.slot = newest
                       /\ playing[h.slot].key = Key(midi.b1)
                       /\ playing[h.slot].env.current_mode = "RELEASE"

\* C26: in every reachable state of the pool no two voices hold the same
\* non-negative key, and a noteOff(note) releases at most one voice.
C26_OneVoicePerKey ==
    /\ [](\A i, j \in Slots :
            (i # j /\ playing[i].key >= 0) => playing[i].key # playing[j].key)
    /\ [][(op'.name = "noteOff" /\ nCtl' # nCtl) =>
            /\ Cardinality(held') <= 1
            /\ Cardinality({i \in Slots : playing'[i] # playing[i]}) <= 1]_vars

\* two keys sound, one of them struck twice, and a noteOff has released the one
\* voice that held its key
C26_Witness ==
    /\ op.name = "noteOff"
    /\ nNoteOn = 3
    /\ newest = 2
    /\ Cardinality(Active(playing)) = 2
    /\ Cardinality(held) = 1
    /\ \E h \in held : /\ h.mode # "RELEASE"
                       /\ playing[h.slot].env.current_mode = "RELEASE"

\* the speed of voice n at a pitch offset of bend + key - 6900 cents
BentSpeed(n) == ResamplePitchOffset(n.phase, bend + n.key - A440_CENTS).speedup

\* C27: whenever the vibrato depth is 0, the pitch offset of every active voice
\* is bend + key - 6900 cents, after any sequence of noteOn, noteOff,
\* pitchWheelChange, modulationWheelChange and ticks.
C27_PitchIsBendPlusKey ==
    vibrato = 0 =>
        \A i \in Slots :
            playing[i].key >= 0 => playing[i].phase.speedup = BentSpeed(playing[i])

\* a note struck while the wheel is bent plays at its key's pitch, without the
\* bend
C27_NewNoteUnbent ==
    /\ op.name = "noteOn"
    /\ vibrato = 0
    /\ bend = CENTS_RANGE
    /\ \E i \in Slots :
         /\ playing[i].key = Key(op.a)
         /\ playing[i].phase.speedup # BentSpeed(playing[i])
         /\ playing[i].phase.speedup =
               ResamplePitchOffset(playing[i].phase, playing[i].key - A440_CENTS).speedup

\* the modulation wheel is back at 0 and the voices keep the vibrato term of the
\* last tick
C27_VibratoTermKept ==
    /\ op = Call("modulationWheelChange", 0, 0)
    /\ vibrato = 0
    /\ mod # 0
    /\ \E i \in Slots :
         /\ playing[i].key >= 0
         /\ playing[i].phase.speedup # BentSpeed(playing[i])
         /\ playing[i].phase.speedup =
               ResamplePitchOffset(playing[i].phase,
                                   mod + bend + playing[i].key - A440_CENTS).speedup

\* C28: right after a noteOn, whether it started a voice over or took a slot,
\* the voice holding the key has resampler index 0.
C28_NoteOnStartsAtZero ==
    op.name = "noteOn" =>
        \A i \in Slots :
            playing[i].key = Key(op.a) => playing[i].phase.findex = 0

\* a noteOn for a key no voice held: the voice starts 0.8 frames into its source
C28_FreshNoteStartsInside ==
    /\ op.name = "noteOn"
    /\ held = {}
    /\ playing[newest].key = Key(op.a)
    /\ playing[newest].phase.findex = (8 * IdxScale) \div 10

----------------------------------------------------------------------------
(* Claims about the event thread *)

\* the destructor has cleared thread_running (line 1030)
Cleared == thread.main \in {"1031", "destroyed"}

\* C31: under every interleaving of the owner's thread and the event thread,
\* once the constructor has returned and start() has been called the event loop
\* is running, and it does not end before the destructor clears thread_running.
C31_LoopRunsUntilDestructor ==
    /\ (thread.main = "constructed" /\ thread.process_events) => midi.pc # "exited"
    /\ midi.pc = "exited" => Cleared

\* the loop has ended on its first test, made before line 1018; the constructor
\* has returned, start() has been called and both flags are set
C31_ExitedBeforeRunning ==
    /\ thread.main = "constructed"
    /\ op.name = "start"
    /\ thread.thread_running
    /\ thread.process_events
    /\ thread.cached = {FALSE}
    /\ midi.pc = "exited"

====
